---- MODULE Spec2Model ----
(***************************************************************************)
(* Voice activity detection of Jarvis (src/core/voice/activity_detector.py)*)
(* as a state machine: one VoiceActivityDetector object, the async         *)
(* generator start_detecting() drives, and its consumer.                   *)
(*                                                                         *)
(* Numbers.  Durations are decimal literals and are held in tenths of a    *)
(* second; the threshold is a fraction <<numerator, denominator>>.  The    *)
(* level of a frame is mean(abs(int16 samples)) / 32768.0, compared to the *)
(* threshold by cross-multiplication, so no real numbers are needed.  A    *)
(* frame is a tuple of int16 samples; the mean is taken over the samples   *)
(* the frame holds.                                                        *)
(***************************************************************************)
EXTENDS Integers, Sequences, FiniteSets, TLC

\* ---------------------------------------------------------------- bounds
\* Frames the detector processes over its lifetime, all sessions together.
MaxFrames == 6
\* start_detecting() calls made on the detector.
MaxSessions == 2
\* Frames the wake-word detector reads over its lifetime.
MaxWakeFrames == 3
\* stop_stream() or close() calls that raise over the detector's lifetime.
MaxReleaseFaults == 2

\* ------------------------------------------------------ program constants
\* np.int16 range and the normalisation divisor of the level.
Int16Min == -32768
FullScale == 32768

\* Constructor arguments.  threshold is <<num, den>>, durations in tenths.
DefaultConfig ==
  [sample_rate |-> 16000, chunk_size |-> 1024, threshold |-> <<1, 100>>,
   silence_duration |-> 10, min_speech_duration |-> 3]

\* Other argument tuples the constructor accepts (it validates nothing).
Configs ==
  { DefaultConfig,
    [sample_rate |-> 8000, chunk_size |-> 1024, threshold |-> <<1, 128>>,
     silence_duration |-> 3, min_speech_duration |-> 3],
    [sample_rate |-> 8000, chunk_size |-> 1024, threshold |-> <<1, 128>>,
     silence_duration |-> 4, min_speech_duration |-> 2],
    [sample_rate |-> 8000, chunk_size |-> 1024, threshold |-> <<1, 128>>,
     silence_duration |-> 2, min_speech_duration |-> 4],
    [sample_rate |-> 16000, chunk_size |-> 8192, threshold |-> <<1, 128>>,
     silence_duration |-> 10, min_speech_duration |-> 1] }

\* Frames stream.read() may return: at level 256/32768 (= 1/128), at
\* 400/32768, and the frame of most negative samples.
AudioFrames ==
  { <<256, 256>>, <<-400, 400>>, <<Int16Min, Int16Min>> }

\* ------------------------------------------------------- pure functions
\* Python int() on a quotient: truncation toward zero.
IntTrunc(n, d) == IF n >= 0 THEN n \div d ELSE -((-n) \div d)

\* int(duration * sample_rate / chunk_size), duration given in tenths.
FrameCount(duration, rate, chunk) == IntTrunc(duration * rate, 10 * chunk)

\* np.abs on an int16 array: the result stays int16, so abs(-32768) wraps.
AbsInt16(x) == IF x = Int16Min THEN Int16Min ELSE IF x < 0 THEN -x ELSE x

RECURSIVE SumAbs(_)
SumAbs(data) ==
  IF data = <<>> THEN 0 ELSE AbsInt16(Head(data)) + SumAbs(Tail(data))

\* level > self.threshold, with level = SumAbs/Len/32768 and thr = num/den.
AboveThreshold(data, thr) ==
  SumAbs(data) * thr[2] > thr[1] * FullScale * Len(data)

\* StepVAD with the speech test off by one (> for >=).
StepVAD_LateSpeech(sp, sil, spc, loud, S, M) ==
  IF loud
  THEN [is_speaking |-> IF ~sp /\ spc + 1 > M THEN TRUE ELSE sp,
        silence_frames |-> 0,
        speech_frames |-> spc + 1]
  ELSE [is_speaking |-> IF sp /\ sil + 1 >= S THEN FALSE ELSE sp,
        silence_frames |-> sil + 1,
        speech_frames |-> 0]

\* StepVAD with the silence test off by one (> for >=).
StepVAD_LateSilence(sp, sil, spc, loud, S, M) ==
  IF loud
  THEN [is_speaking |-> IF ~sp /\ spc + 1 >= M THEN TRUE ELSE sp,
        silence_frames |-> 0,
        speech_frames |-> spc + 1]
  ELSE [is_speaking |-> IF sp /\ sil + 1 > S THEN FALSE ELSE sp,
        silence_frames |-> sil + 1,
        speech_frames |-> 0]

\* StepVAD that forgets to reset the opposite counter.
StepVAD_NoReset(sp, sil, spc, loud, S, M) ==
  IF loud
  THEN [is_speaking |-> IF ~sp /\ spc + 1 >= M THEN TRUE ELSE sp,
        silence_frames |-> sil,
        speech_frames |-> spc + 1]
  ELSE [is_speaking |-> IF sp /\ sil + 1 >= S THEN FALSE ELSE sp,
        silence_frames |-> sil + 1,
        speech_frames |-> spc]

\* StepVAD without the two frame-count tests: is_speaking follows the frame.
StepVAD_NoDebounce(sp, sil, spc, loud, S, M) ==
  IF loud
  THEN [is_speaking |-> TRUE,
        silence_frames |-> 0,
        speech_frames |-> spc + 1]
  ELSE [is_speaking |-> FALSE,
        silence_frames |-> sil + 1,
        speech_frames |-> 0]

\* StepVAD whose counters stop at their thresholds.
StepVAD_Saturating(sp, sil, spc, loud, S, M) ==
  IF loud
  THEN [is_speaking |-> IF ~sp /\ spc + 1 >= M THEN TRUE ELSE sp,
        silence_frames |-> 0,
        speech_frames |-> IF spc + 1 > M THEN M ELSE spc + 1]
  ELSE [is_speaking |-> IF sp /\ sil + 1 >= S THEN FALSE ELSE sp,
        silence_frames |-> IF sil + 1 > S THEN S ELSE sil + 1,
        speech_frames |-> 0]

\* The state update of one loop iteration, lines 67-81.
StepVAD(sp, sil, spc, loud, S, M) ==
  IF loud
  THEN [is_speaking |-> IF ~sp /\ spc + 1 >= M THEN TRUE ELSE sp,
        silence_frames |-> 0,
        speech_frames |-> spc + 1]
  ELSE [is_speaking |-> IF sp /\ sil + 1 >= S THEN FALSE ELSE sp,
        silence_frames |-> sil + 1,
        speech_frames |-> 0]

\* A yield that fires only while speaking.
YieldEvent_SpeechOnly(evs, sp, data) ==
  IF sp THEN Append(evs, <<sp, data>>) ELSE evs

\* A yield that delivers the event twice.
YieldEvent_Twice(evs, sp, data) == Append(Append(evs, <<sp, data>>), <<sp, data>>)

\* yield self.is_speaking, data
YieldEvent(evs, sp, data) == Append(evs, <<sp, data>>)

\* VoiceManager.record_with_activity_detection: the frames of the events
\* that carry is_speaking = true, in order.
RECURSIVE RecordWithActivityDetection(_)
RecordWithActivityDetection(evs) ==
  IF evs = <<>> THEN <<>>
  ELSE IF Head(evs)[1]
       THEN << Head(evs)[2] >> \o RecordWithActivityDetection(Tail(evs))
       ELSE RecordWithActivityDetection(Tail(evs))

\* ------------------------------------------- wake word: text and matching
\* Text is a sequence of one-character strings.

\* What the recognizer hears in one frame: a piece of speech, or silence.
FragHey == << "H", "e", "y" >>
FragHeyComma == << "H", "e", "y", "," >>
FragHeyJarvis == << "H", "e", "y", " ", "J", "a", "r", "v", "i", "s" >>
FragJarvisRest ==
  << " ", "J", "a", "r", "v", "i", "s", ",", " ", "w", "h", "a", "t", "'", "s",
     " ", "u", "p" >>
FragSilence == << >>
WakeFrames ==
  { FragHey, FragHeyComma, FragHeyJarvis, FragJarvisRest, FragSilence }

\* wake_word arguments: the default, a capitalised one, and the empty one.
DefaultWakeWord == << "h", "e", "y", " ", "j", "a", "r", "v", "i", "s" >>
WakeArgs ==
  { DefaultWakeWord,
    << "H", "e", "y", " ", "J", "a", "r", "v", "i", "s" >>,
    << >> }

\* str.lower(), on the characters the model uses.
LowerChar(c) == CASE c = "H" -> "h" [] c = "J" -> "j" [] OTHER -> c
LowerStr(str) == [i \in 1..Len(str) |-> LowerChar(str[i])]

\* The transcript the recognizer holds for the frames of one utterance: the
\* pieces it heard, in order.  buf is a sequence of <<session, piece>>.
RECURSIVE Transcript(_)
Transcript(buf) ==
  IF buf = <<>> THEN <<>> ELSE Transcript(SubSeq(buf, 1, Len(buf) - 1)) \o buf[Len(buf)][2]

\* Python's `w in text` on strings.
StrIn(w, text) ==
  \E i \in 0..(Len(text) - Len(w)) : SubSeq(text, i + 1, i + Len(w)) = w

\* The test without .lower() on the transcript.
DetectWake_NoLower(w, resultText) == StrIn(w, resultText)

\* text = result.get("text", "").lower(); self.wake_word in text
DetectWake(w, resultText) == StrIn(w, LowerStr(resultText))

\* yield True / yield False
YieldDetection(out, detected) == Append(out, detected)

\* The test without the empty-directory half.
NeedsDownload_AbsentOnly(dir) == dir = "absent"

\* not self.model_path.exists() or not any(self.model_path.iterdir())
NeedsDownload(dir) == dir = "absent" \/ dir = "empty"

\* ----------------------------------------------------------------- state
VARIABLES
  kind,               \* the detector modelled: "vad" or "wake"
  config,             \* constructor arguments kept on self
  is_speaking, silence_frames, speech_frames,
  silence_threshold, min_speech_frames,
  audio,              \* the PyAudio instance: "live" or "terminated"
  stream,             \* self.stream: 0 is None, n > 0 the n-th opened stream
  open_calls,         \* audio.open() calls so far
  opened,             \* streams opened so far
  stopped,            \* streams on which stop_stream() returned, in order
  released,           \* streams on which close() returned, in order
  faults,             \* stop_stream()/close() calls that raised so far
  gen,                \* the generator: "none", "opened" or "suspended"
  sessions,           \* start_detecting() calls so far
  events,             \* what the current generator has yielded
  log,                \* every frame processed, with is_speaking after it
  raised,             \* the last exception that reached a caller
  wake_arg,           \* the wake_word argument of the constructor
  wake_word,          \* self.wake_word
  model_dir,          \* the model directory: "absent", "empty", "present"
  ctor,               \* __init__: "check", "load", "ready" or "failed"
  ctor_log,           \* what __init__ has attempted, in order
  recognizer,         \* self.recognizer: "none" or "held"
  rec_buffer,         \* <<session, piece>> fed since the last final result
  reads,              \* frames the wake-word detector has read
  finals,             \* utterances the recognizer finalized, this session
  emitted,            \* booleans the current generator has yielded
  gen2,               \* a second generator on the same detector: "none",
                      \* "suspended" or "ended"
  events2,            \* what the second generator has yielded
  mgr                 \* the VoiceManager that owns the detector, if any

vars ==
  << kind, config, is_speaking, silence_frames, speech_frames,
     silence_threshold, min_speech_frames, audio, stream, open_calls, opened, stopped,
     released, faults, gen, sessions, events, log, raised, wake_arg,
     wake_word, model_dir, ctor, ctor_log, recognizer, rec_buffer,
     reads, finals, emitted, gen2, events2, mgr >>

\* What exists beside one detector and one generator on it.
beside == << gen2, events2, mgr >>

\* A detector that no VoiceManager owns.
NoManager ==
  [ wake_word_detector |-> "None", activity_detector |-> "None",
    shutdown |-> "not called" ]

detector == << kind, config, silence_threshold, min_speech_frames >>
vadState == << is_speaking, silence_frames, speech_frames >>
\* What only the wake-word detector has, and what its __init__ settles.
wakeBuilt == << wake_arg, wake_word, model_dir, ctor, ctor_log,
               recognizer >>
wakeState == << rec_buffer, reads, finals, emitted >>

\* VoiceActivityDetector.__init__
InitVAD ==
  /\ kind = "vad"
  /\ config \in Configs
  /\ is_speaking = FALSE
  /\ silence_frames = 0
  /\ speech_frames = 0
  /\ silence_threshold =
       FrameCount(config.silence_duration, config.sample_rate, config.chunk_size)
  /\ min_speech_frames =
       FrameCount(config.min_speech_duration, config.sample_rate, config.chunk_size)
  /\ audio = "live"
  /\ stream = 0
  /\ open_calls = 0
  /\ opened = 0
  /\ stopped = <<>>
  /\ released = <<>>
  /\ faults = 0
  /\ gen = "none"
  /\ sessions = 0
  /\ events = <<>>
  /\ log = <<>>
  /\ raised = "none"
  /\ wake_arg = <<>>
  /\ wake_word = <<>>
  /\ model_dir = "present"
  /\ ctor = "ready"
  /\ ctor_log = <<>>
  /\ recognizer = "none"
  /\ rec_buffer = <<>>
  /\ reads = 0
  /\ finals = <<>>
  /\ emitted = <<>>
  /\ gen2 = "none"
  /\ events2 = <<>>
  /\ mgr = NoManager

\* WakeWordDetector.__init__ up to the model check (lines 33-45).
InitWake ==
  /\ kind = "wake"
  /\ config = DefaultConfig
  /\ is_speaking = FALSE
  /\ silence_frames = 0
  /\ speech_frames = 0
  /\ silence_threshold =
       FrameCount(config.silence_duration, config.sample_rate, config.chunk_size)
  /\ min_speech_frames =
       FrameCount(config.min_speech_duration, config.sample_rate, config.chunk_size)
  /\ audio = "live"
  /\ stream = 0
  /\ open_calls = 0
  /\ opened = 0
  /\ stopped = <<>>
  /\ released = <<>>
  /\ faults = 0
  /\ gen = "none"
  /\ sessions = 0
  /\ events = <<>>
  /\ log = <<>>
  /\ raised = "none"
  /\ wake_arg \in WakeArgs
  /\ wake_word = LowerStr(wake_arg)
  /\ model_dir \in {"absent", "empty", "present"}
  /\ ctor = "check"
  /\ ctor_log = <<>>
  /\ recognizer = "none"
  /\ rec_buffer = <<>>
  /\ reads = 0
  /\ finals = <<>>
  /\ emitted = <<>>
  /\ gen2 = "none"
  /\ events2 = <<>>
  /\ mgr = NoManager

Init == InitVAD \/ InitWake

\* How one call of stop_detecting() can go: both calls return ("ok"),
\* stop_stream() raises, or close() raises.
StopFaults == {"stop_raises", "close_raises"}

\* A stop_detecting() that clears the handle whether or not the release
\* went through.
StopStream_ClearsOnFailure(outcome) ==
  /\ outcome # "ok" => (stream # 0 /\ faults < MaxReleaseFaults)
  /\ stopped' = IF stream # 0 /\ outcome # "stop_raises"
                THEN Append(stopped, stream) ELSE stopped
  /\ released' = IF stream # 0 /\ outcome = "ok"
                 THEN Append(released, stream) ELSE released
  /\ stream' = 0
  /\ faults' = IF outcome = "ok" THEN faults ELSE faults + 1

\* stop_detecting(): nothing when self.stream is None; else stop_stream(),
\* close(), self.stream = None, each skipped once an earlier one raised.
StopStream(outcome) ==
  /\ outcome # "ok" => (stream # 0 /\ faults < MaxReleaseFaults)
  /\ stopped' = IF stream # 0 /\ outcome # "stop_raises"
                THEN Append(stopped, stream) ELSE stopped
  /\ released' = IF stream # 0 /\ outcome = "ok"
                 THEN Append(released, stream) ELSE released
  /\ stream' = IF outcome = "ok" THEN 0 ELSE stream
  /\ faults' = IF outcome = "ok" THEN faults ELSE faults + 1

\* The exception a caller sees after a finally that ran stop_detecting().
Propagated(outcome, pending) == IF outcome = "ok" THEN pending ELSE "stop"

\* First __anext__ of a new generator, audio.open() succeeds.
StartDetecting ==
  /\ kind = "vad"
  /\ gen = "none"
  /\ audio = "live"
  /\ sessions < MaxSessions
  /\ sessions' = sessions + 1
  /\ open_calls' = open_calls + 1
  /\ opened' = opened + 1
  /\ stream' = opened + 1
  /\ gen' = "opened"
  /\ events' = <<>>
  /\ raised' = "none"
  /\ UNCHANGED << detector, beside, wakeBuilt, wakeState, vadState, audio, stopped, released, faults, log >>

\* A failed open that also resets the detection state.
OpenFailsWith_Resets(o) ==
  /\ kind = "vad"
  /\ gen = "none"
  /\ sessions < MaxSessions
  /\ sessions' = sessions + 1
  /\ StopStream(o)
  /\ raised' = Propagated(o, "open")
  /\ events' = <<>>
  /\ open_calls' = open_calls + 1
  /\ is_speaking' = FALSE
  /\ silence_frames' = 0
  /\ speech_frames' = 0
  /\ UNCHANGED << detector, beside, wakeBuilt, wakeState, audio, opened, gen, log >>

\* First __anext__ of a new generator, audio.open() raises: except logs and
\* re-raises, finally runs stop_detecting().
OpenFailsWith(o) ==
  /\ kind = "vad"
  /\ gen = "none"
  /\ sessions < MaxSessions
  /\ sessions' = sessions + 1
  /\ StopStream(o)
  /\ raised' = Propagated(o, "open")
  /\ events' = <<>>
  /\ open_calls' = open_calls + 1
  /\ UNCHANGED << detector, beside, wakeBuilt, wakeState, vadState, audio, opened, gen, log >>

StartDetectingOpenFails == OpenFailsWith("ok")

\* One loop iteration: read, level, update, yield.
ProcessFrame(data) ==
  /\ kind = "vad"
  /\ gen \in {"opened", "suspended"}
  /\ stream # 0
  /\ Len(log) < MaxFrames
  /\ LET new == StepVAD(is_speaking, silence_frames, speech_frames,
                        AboveThreshold(data, config.threshold),
                        silence_threshold, min_speech_frames)
     IN /\ is_speaking' = new.is_speaking
        /\ silence_frames' = new.silence_frames
        /\ speech_frames' = new.speech_frames
        /\ events' = YieldEvent(events, new.is_speaking, data)
        /\ log' = Append(log, <<new.is_speaking, data>>)
  /\ gen' = "suspended"
  /\ UNCHANGED << detector, beside, wakeBuilt, wakeState, audio, stream, open_calls, opened, stopped, released, faults,
                  sessions, raised >>

\* stream.read() raises, or self.stream is None after an outside
\* stop_detecting(): except logs and re-raises, finally stop_detecting().
ReadFailsWith(o) ==
  /\ kind = "vad"
  /\ gen \in {"opened", "suspended"}
  /\ StopStream(o)
  /\ raised' = Propagated(o, "read")
  /\ gen' = "none"
  /\ UNCHANGED << detector, beside, wakeBuilt, wakeState, vadState, audio, open_calls, opened, sessions, events, log >>

ReadFails == ReadFailsWith("ok")

\* The consumer abandons the generator at the yield (aclose, cancellation):
\* GeneratorExit passes the except clause, finally runs stop_detecting().
AbandonWith(o) ==
  /\ kind = "vad"
  /\ gen = "suspended"
  /\ StopStream(o)
  /\ raised' = Propagated(o, "exit")
  /\ gen' = "none"
  /\ UNCHANGED << detector, beside, wakeBuilt, wakeState, vadState, audio, open_calls, opened, sessions, events, log >>

Abandon == AbandonWith("ok")

\* stop_detecting() called from outside the generator.
StopDetectingWith(o) ==
  /\ kind = "vad"
  /\ gen \in {"none", "suspended"}
  /\ StopStream(o)
  /\ raised' = Propagated(o, raised)
  /\ UNCHANGED << detector, beside, wakeBuilt, wakeState, vadState, audio, open_calls, opened, gen, sessions, events,
                  log >>

StopDetecting == StopDetectingWith("ok")

\* A close() that also puts is_speaking back to false.
CloseWith_Resets(o) ==
  /\ kind = "vad"
  /\ gen \in {"none", "suspended"}
  /\ StopStream(o)
  /\ raised' = Propagated(o, raised)
  /\ audio' = IF o = "ok" THEN "terminated" ELSE audio
  /\ is_speaking' = FALSE
  /\ UNCHANGED << detector, beside, wakeBuilt, wakeState, silence_frames,
                  speech_frames, open_calls, opened, gen, sessions, events,
                  log >>

\* close(): stop_detecting(), then audio.terminate().
CloseWith(o) ==
  /\ kind = "vad"
  /\ gen \in {"none", "suspended"}
  /\ StopStream(o)
  /\ raised' = Propagated(o, raised)
  /\ audio' = IF o = "ok" THEN "terminated" ELSE audio
  /\ UNCHANGED << detector, beside, wakeBuilt, wakeState, vadState, open_calls, opened, gen, sessions, events, log >>

Close == CloseWith("ok")

\* The same operations when stop_stream() or close() raises inside
\* stop_detecting().
OpenFailsReleaseFails == \E o \in StopFaults : OpenFailsWith(o)
ReadFailsReleaseFails == \E o \in StopFaults : ReadFailsWith(o)
AbandonReleaseFails == \E o \in StopFaults : AbandonWith(o)
StopDetectingFails == \E o \in StopFaults : StopDetectingWith(o)
CloseFails == \E o \in StopFaults : CloseWith(o)

\* ------------------------------------------------- WakeWordDetector
vadAll == << vadState, events, log >>

\* __init__, line 46: the model directory holds a model, no download.
WakeModelFound ==
  /\ kind = "wake"
  /\ ctor = "check"
  /\ ~NeedsDownload(model_dir)
  /\ ctor' = "load"
  /\ UNCHANGED << detector, beside, vadAll, audio, stream, open_calls, opened,
                  stopped, released, faults, gen, sessions, raised, wake_arg,
                  wake_word, model_dir, ctor_log, recognizer,
                  wakeState >>

\* __init__, lines 46-49, _download_vosk_model() returns.
WakeDownloadModel ==
  /\ kind = "wake"
  /\ ctor = "check"
  /\ NeedsDownload(model_dir)
  /\ model_dir' = "present"
  /\ ctor_log' = Append(ctor_log, "download")
  /\ ctor' = "load"
  /\ UNCHANGED << detector, beside, vadAll, audio, stream, open_calls, opened,
                  stopped, released, faults, gen, sessions, raised, wake_arg,
                  wake_word, recognizer, wakeState >>

\* __init__, lines 46-49, _download_vosk_model() raises RuntimeError; the
\* directory it made (line 58) may be left behind, empty.
WakeDownloadFails ==
  /\ kind = "wake"
  /\ ctor = "check"
  /\ NeedsDownload(model_dir)
  /\ model_dir' \in {model_dir, "empty"}
  /\ ctor_log' = Append(ctor_log, "download")
  /\ ctor' = "failed"
  /\ raised' = "model"
  /\ UNCHANGED << detector, beside, vadAll, audio, stream, open_calls, opened,
                  stopped, released, faults, gen, sessions, wake_arg,
                  wake_word, recognizer, wakeState >>

\* __init__, lines 51-52: vosk.Model() and KaldiRecognizer() return.
WakeLoadModel ==
  /\ kind = "wake"
  /\ ctor = "load"
  /\ ctor_log' = Append(ctor_log, "load")
  /\ recognizer' = "held"
  /\ ctor' = "ready"
  /\ UNCHANGED << detector, beside, vadAll, audio, stream, open_calls, opened,
                  stopped, released, faults, gen, sessions, raised, wake_arg,
                  wake_word, model_dir, wakeState >>

\* __init__, lines 51-52: vosk.Model() or KaldiRecognizer() raises.
WakeLoadFails ==
  /\ kind = "wake"
  /\ ctor = "load"
  /\ ctor_log' = Append(ctor_log, "load")
  /\ ctor' = "failed"
  /\ raised' = "model"
  /\ UNCHANGED << detector, beside, vadAll, audio, stream, open_calls, opened,
                  stopped, released, faults, gen, sessions, wake_arg,
                  wake_word, model_dir, recognizer, wakeState >>

\* First __anext__ of a new generator, audio.open() succeeds.
WakeStartDetecting ==
  /\ kind = "wake"
  /\ ctor = "ready"
  /\ gen = "none"
  /\ audio = "live"
  /\ sessions < MaxSessions
  /\ sessions' = sessions + 1
  /\ open_calls' = open_calls + 1
  /\ opened' = opened + 1
  /\ stream' = opened + 1
  /\ gen' = "opened"
  /\ finals' = <<>>
  /\ emitted' = <<>>
  /\ raised' = "none"
  /\ UNCHANGED << detector, beside, vadAll, wakeBuilt, audio, stopped, released,
                  faults, rec_buffer, reads >>

\* First __anext__ of a new generator, audio.open() raises.
WakeOpenFailsWith(o) ==
  /\ kind = "wake"
  /\ ctor = "ready"
  /\ gen = "none"
  /\ sessions < MaxSessions
  /\ sessions' = sessions + 1
  /\ open_calls' = open_calls + 1
  /\ StopStream(o)
  /\ raised' = Propagated(o, "open")
  /\ finals' = <<>>
  /\ emitted' = <<>>
  /\ UNCHANGED << detector, beside, vadAll, wakeBuilt, audio, opened, gen,
                  rec_buffer, reads >>

WakeOpenFails == WakeOpenFailsWith("ok")

\* One loop iteration in which AcceptWaveform() returns False: the frame is
\* buffered by the recognizer, nothing is yielded, the loop reads on.
WakeFrameBuffered(piece) ==
  /\ kind = "wake"
  /\ gen \in {"opened", "suspended"}
  /\ stream # 0
  /\ reads < MaxWakeFrames
  /\ reads' = reads + 1
  /\ rec_buffer' = Append(rec_buffer, <<sessions, piece>>)
  /\ gen' = "opened"
  /\ UNCHANGED << detector, beside, vadAll, wakeBuilt, audio, stream, open_calls,
                  opened, stopped, released, faults, sessions, raised, finals,
                  emitted >>

\* One loop iteration in which AcceptWaveform() returns True: Result() is the
\* transcript of the utterance, the test on it is yielded.
WakeFrameFinalized(piece) ==
  /\ kind = "wake"
  /\ gen \in {"opened", "suspended"}
  /\ stream # 0
  /\ reads < MaxWakeFrames
  /\ reads' = reads + 1
  /\ LET text == Transcript(Append(rec_buffer, <<sessions, piece>>))
     IN /\ finals' = Append(finals, text)
        /\ emitted' = YieldDetection(emitted, DetectWake(wake_word, text))
  /\ rec_buffer' = <<>>
  /\ gen' = "suspended"
  /\ UNCHANGED << detector, beside, vadAll, wakeBuilt, audio, stream, open_calls,
                  opened, stopped, released, faults, sessions, raised >>

\* One loop iteration in which AcceptWaveform() returns True and Result() or
\* json.loads() raises: except logs and re-raises, finally stop_detecting().
WakeResultFailsWith(piece, o) ==
  /\ kind = "wake"
  /\ gen \in {"opened", "suspended"}
  /\ stream # 0
  /\ reads < MaxWakeFrames
  /\ reads' = reads + 1
  /\ finals' = Append(finals, Transcript(Append(rec_buffer, <<sessions, piece>>)))
  /\ rec_buffer' = <<>>
  /\ StopStream(o)
  /\ raised' = Propagated(o, "recognition")
  /\ gen' = "none"
  /\ UNCHANGED << detector, beside, vadAll, wakeBuilt, audio, open_calls, opened,
                  sessions, emitted >>

WakeResultFails == \E piece \in WakeFrames : WakeResultFailsWith(piece, "ok")

\* stream.read() raises, or self.stream is None after an outside
\* stop_detecting().
WakeReadFailsWith(o) ==
  /\ kind = "wake"
  /\ gen \in {"opened", "suspended"}
  /\ StopStream(o)
  /\ raised' = Propagated(o, "read")
  /\ gen' = "none"
  /\ UNCHANGED << detector, beside, vadAll, wakeBuilt, wakeState, audio, open_calls,
                  opened, sessions >>

WakeReadFails == WakeReadFailsWith("ok")

\* The consumer abandons the generator at a yield.
WakeAbandonWith(o) ==
  /\ kind = "wake"
  /\ gen = "suspended"
  /\ StopStream(o)
  /\ raised' = Propagated(o, "exit")
  /\ gen' = "none"
  /\ UNCHANGED << detector, beside, vadAll, wakeBuilt, wakeState, audio, open_calls,
                  opened, sessions >>

WakeAbandon == WakeAbandonWith("ok")

\* stop_detecting() called from outside the generator.
WakeStopDetectingWith(o) ==
  /\ kind = "wake"
  /\ ctor = "ready"
  /\ gen \in {"none", "suspended"}
  /\ StopStream(o)
  /\ raised' = Propagated(o, raised)
  /\ UNCHANGED << detector, beside, vadAll, wakeBuilt, wakeState, audio, open_calls,
                  opened, gen, sessions >>

WakeStopDetecting == WakeStopDetectingWith("ok")

\* close(): stop_detecting(), then audio.terminate().
WakeCloseWith(o) ==
  /\ kind = "wake"
  /\ ctor = "ready"
  /\ gen \in {"none", "suspended"}
  /\ StopStream(o)
  /\ raised' = Propagated(o, raised)
  /\ audio' = IF o = "ok" THEN "terminated" ELSE audio
  /\ UNCHANGED << detector, beside, vadAll, wakeBuilt, wakeState, open_calls, opened,
                  gen, sessions >>

WakeClose == WakeCloseWith("ok")

WakeOpenFailsReleaseFails == \E o \in StopFaults : WakeOpenFailsWith(o)
WakeResultFailsReleaseFails ==
  \E piece \in WakeFrames, o \in StopFaults : WakeResultFailsWith(piece, o)
WakeReadFailsReleaseFails == \E o \in StopFaults : WakeReadFailsWith(o)
WakeAbandonReleaseFails == \E o \in StopFaults : WakeAbandonWith(o)
WakeStopDetectingFails == \E o \in StopFaults : WakeStopDetectingWith(o)
WakeCloseFails == \E o \in StopFaults : WakeCloseWith(o)

NextWake ==
  \/ WakeModelFound
  \/ WakeDownloadModel
  \/ WakeDownloadFails
  \/ WakeLoadModel
  \/ WakeLoadFails
  \/ WakeStartDetecting
  \/ WakeOpenFails
  \/ \E piece \in WakeFrames : WakeFrameBuffered(piece)
  \/ \E piece \in WakeFrames : WakeFrameFinalized(piece)
  \/ WakeResultFails
  \/ WakeReadFails
  \/ WakeAbandon
  \/ WakeStopDetecting
  \/ WakeClose

NextWakeReleaseFaults ==
  \/ WakeOpenFailsReleaseFails
  \/ WakeResultFailsReleaseFails
  \/ WakeReadFailsReleaseFails
  \/ WakeAbandonReleaseFails
  \/ WakeStopDetectingFails
  \/ WakeCloseFails

NextVAD ==
  \/ StartDetecting
  \/ StartDetectingOpenFails
  \/ \E data \in AudioFrames : ProcessFrame(data)
  \/ ReadFails
  \/ Abandon
  \/ StopDetecting
  \/ Close

NextVADReleaseFaults ==
  \/ OpenFailsReleaseFails
  \/ ReadFailsReleaseFails
  \/ AbandonReleaseFails
  \/ StopDetectingFails
  \/ CloseFails

Next == NextVAD \/ NextWake

\* The detectors with an audio device that opens or not and reads or not.
Spec == Init /\ [][Next]_vars

NextReleaseFaults == Next \/ NextVADReleaseFaults \/ NextWakeReleaseFaults

\* The same, with a device whose stop_stream() and close() may raise.
SpecReleaseFaults == Init /\ [][NextReleaseFaults]_vars

\* ------------------------------------------- release faults, one input
\* Both detectors as their constructors' defaults build them, with the model
\* in place.
InitDefaults ==
  \/ InitVAD /\ config = DefaultConfig
  \/ InitWake /\ wake_arg = DefaultWakeWord /\ model_dir = "present"

\* Every operation that opens, reads or releases a stream, with and without
\* a release that raises; what a frame holds does not reach stop_detecting(),
\* so the device delivers one loud frame, and one utterance, over and over.
NextRelease ==
  \/ StartDetecting
  \/ StartDetectingOpenFails
  \/ ProcessFrame(<<-400, 400>>)
  \/ ReadFails
  \/ Abandon
  \/ StopDetecting
  \/ Close
  \/ NextVADReleaseFaults
  \/ WakeModelFound
  \/ WakeLoadModel
  \/ WakeLoadFails
  \/ WakeStartDetecting
  \/ WakeOpenFails
  \/ WakeFrameBuffered(FragHey)
  \/ WakeFrameFinalized(FragHeyJarvis)
  \/ WakeResultFails
  \/ WakeReadFails
  \/ WakeAbandon
  \/ WakeStopDetecting
  \/ WakeClose
  \/ NextWakeReleaseFaults

\* The detectors on a device whose stop_stream() and close() may raise.
SpecRelease == InitDefaults /\ [][NextRelease]_vars

\* ------------------------------- two generators on one VoiceActivityDetector
\* A second start_detecting() generator is iterated while the first one is
\* suspended at its yield.  Both run the same code on the same self, and a
\* generator runs from one yield to the next without giving up control, so
\* each __anext__ of the second generator is one step.

\* First __anext__ of the second generator: audio.open() succeeds and
\* replaces self.stream, then one loop iteration runs.
StartDetecting2(data) ==
  /\ kind = "vad"
  /\ gen = "suspended"
  /\ gen2 = "none"
  /\ audio = "live"
  /\ sessions < MaxSessions
  /\ Len(log) < MaxFrames
  /\ sessions' = sessions + 1
  /\ open_calls' = open_calls + 1
  /\ opened' = opened + 1
  /\ stream' = opened + 1
  /\ LET new == StepVAD(is_speaking, silence_frames, speech_frames,
                        AboveThreshold(data, config.threshold),
                        silence_threshold, min_speech_frames)
     IN /\ is_speaking' = new.is_speaking
        /\ silence_frames' = new.silence_frames
        /\ speech_frames' = new.speech_frames
        /\ events2' = YieldEvent(<<>>, new.is_speaking, data)
        /\ log' = Append(log, <<new.is_speaking, data>>)
  /\ gen2' = "suspended"
  /\ raised' = "none"
  /\ UNCHANGED << detector, mgr, wakeBuilt, wakeState, audio, stopped,
                  released, faults, gen, events >>

\* First __anext__ of the second generator, audio.open() raises: its finally
\* runs stop_detecting() on whatever self.stream holds.
StartDetecting2OpenFails ==
  /\ kind = "vad"
  /\ gen = "suspended"
  /\ gen2 = "none"
  /\ sessions < MaxSessions
  /\ sessions' = sessions + 1
  /\ open_calls' = open_calls + 1
  /\ StopStream("ok")
  /\ raised' = "open"
  /\ gen2' = "ended"
  /\ UNCHANGED << detector, mgr, wakeBuilt, wakeState, vadState, audio,
                  opened, gen, events, events2, log >>

\* A later __anext__ of the second generator: one loop iteration on
\* self.stream.
ProcessFrame2(data) ==
  /\ kind = "vad"
  /\ gen # "opened"
  /\ gen2 = "suspended"
  /\ stream # 0
  /\ Len(log) < MaxFrames
  /\ LET new == StepVAD(is_speaking, silence_frames, speech_frames,
                        AboveThreshold(data, config.threshold),
                        silence_threshold, min_speech_frames)
     IN /\ is_speaking' = new.is_speaking
        /\ silence_frames' = new.silence_frames
        /\ speech_frames' = new.speech_frames
        /\ events2' = YieldEvent(events2, new.is_speaking, data)
        /\ log' = Append(log, <<new.is_speaking, data>>)
  /\ UNCHANGED << detector, mgr, wakeBuilt, wakeState, audio, stream,
                  open_calls, opened, stopped, released, faults, gen, gen2,
                  sessions, events, raised >>

\* A later __anext__ of the second generator: stream.read() raises, or
\* self.stream is None because the other generator's stop_detecting() ran.
ReadFails2 ==
  /\ kind = "vad"
  /\ gen # "opened"
  /\ gen2 = "suspended"
  /\ StopStream("ok")
  /\ raised' = "read"
  /\ gen2' = "ended"
  /\ UNCHANGED << detector, mgr, wakeBuilt, wakeState, vadState, audio,
                  open_calls, opened, gen, sessions, events, events2, log >>

\* The consumer of the second generator abandons it at the yield.
Abandon2 ==
  /\ kind = "vad"
  /\ gen # "opened"
  /\ gen2 = "suspended"
  /\ StopStream("ok")
  /\ raised' = "exit"
  /\ gen2' = "ended"
  /\ UNCHANGED << detector, mgr, wakeBuilt, wakeState, vadState, audio,
                  open_calls, opened, gen, sessions, events, events2, log >>

NextSecond ==
  \/ \E data \in AudioFrames : StartDetecting2(data)
  \/ StartDetecting2OpenFails
  \/ \E data \in AudioFrames : ProcessFrame2(data)
  \/ ReadFails2
  \/ Abandon2

NextOverlap == NextVAD \/ NextSecond

\* One VoiceActivityDetector with up to two generators alive at once.
SpecOverlap == InitVAD /\ [][NextOverlap]_vars

\* --------------------------------------------------------- VoiceManager
\* VoiceManager.__init__, lines 38-57: each detector is constructed in its own
\* try block and held as None when its construction raised.  The manager
\* passes no sample_rate or chunk_size, so the activity detector has the
\* defaults.  Of the wake-word detector the manager model keeps only whether
\* it exists and whether its close() has returned.
InitManager ==
  /\ kind = "vad"
  /\ config = DefaultConfig
  /\ mgr \in { [ wake_word_detector |-> w, activity_detector |-> a,
                 shutdown |-> "not called" ] :
               w \in {"None", "live"}, a \in {"None", "built"} }
  /\ is_speaking = FALSE
  /\ silence_frames = 0
  /\ speech_frames = 0
  /\ silence_threshold =
       FrameCount(config.silence_duration, config.sample_rate, config.chunk_size)
  /\ min_speech_frames =
       FrameCount(config.min_speech_duration, config.sample_rate, config.chunk_size)
  /\ audio = IF mgr.activity_detector = "built" THEN "live" ELSE "none"
  /\ stream = 0
  /\ open_calls = 0
  /\ opened = 0
  /\ stopped = <<>>
  /\ released = <<>>
  /\ faults = 0
  /\ gen = "none"
  /\ sessions = 0
  /\ events = <<>>
  /\ log = <<>>
  /\ raised = "none"
  /\ wake_arg = <<>>
  /\ wake_word = <<>>
  /\ model_dir = "present"
  /\ ctor = "ready"
  /\ ctor_log = <<>>
  /\ recognizer = "none"
  /\ rec_buffer = <<>>
  /\ reads = 0
  /\ finals = <<>>
  /\ emitted = <<>>
  /\ gen2 = "none"
  /\ events2 = <<>>

\* An operation of the activity detector the manager holds.
ManagerVAD ==
  /\ mgr.activity_detector = "built"
  /\ NextVAD

\* shutdown(), lines 198-207, no close() raises: the wake-word detector is
\* closed if there is one, then the activity detector if there is one.
Shutdown ==
  /\ kind = "vad"
  /\ gen \in {"none", "suspended"}
  /\ mgr' = [mgr EXCEPT
               !.wake_word_detector = IF @ = "None" THEN "None" ELSE "closed",
               !.shutdown = "returned"]
  /\ IF mgr.activity_detector = "built"
     THEN /\ StopStream("ok")
          /\ audio' = "terminated"
     ELSE UNCHANGED << stream, stopped, released, faults, audio >>
  /\ UNCHANGED << detector, gen2, events2, wakeBuilt, wakeState, vadState,
                  open_calls, opened, gen, sessions, events, log, raised >>

\* shutdown(), wake_word_detector.close() raises: control goes to the except
\* clause at line 205, which logs and re-raises; line 204 is not reached.
ShutdownWakeCloseRaises ==
  /\ kind = "vad"
  /\ gen \in {"none", "suspended"}
  /\ mgr.wake_word_detector = "live"
  /\ mgr' = [mgr EXCEPT !.shutdown = "wake close raised"]
  /\ UNCHANGED << detector, gen2, events2, wakeBuilt, wakeState, vadState,
                  audio, stream, open_calls, opened, stopped, released,
                  faults, gen, sessions, events, log, raised >>

NextManager == ManagerVAD \/ Shutdown \/ ShutdownWakeCloseRaises

\* A VoiceManager with its two detectors.
SpecManager == InitManager /\ [][NextManager]_vars

TypeOK ==
  /\ kind \in {"vad", "wake"}
  /\ config \in Configs
  /\ is_speaking \in BOOLEAN
  /\ silence_frames \in 0..MaxFrames
  /\ speech_frames \in 0..MaxFrames
  /\ stream \in 0..MaxSessions
  /\ gen \in {"none", "opened", "suspended"}
  /\ Len(log) <= MaxFrames
  /\ Len(events) <= Len(log)
  /\ ctor \in {"check", "load", "ready", "failed"}
  /\ recognizer \in {"none", "held"}
  /\ reads \in 0..MaxWakeFrames
  /\ Len(emitted) <= Len(finals)
  /\ gen2 \in {"none", "suspended", "ended"}
  /\ Len(events2) <= Len(log)

\* ------------------------------------------------- vocabulary of the claims
\* Frame i of the current session / of the detector's life is above threshold.
LoudE(i) == AboveThreshold(events[i][2], config.threshold)
LoudL(i) == AboveThreshold(log[i][2], config.threshold)

\* Length of the run of loud frames of the current session ending at frame i.
RECURSIVE LoudRunE(_)
LoudRunE(i) == IF i = 0 \/ ~LoudE(i) THEN 0 ELSE 1 + LoudRunE(i - 1)

\* Length of the run of quiet frames ending at frame i of the detector's life.
RECURSIVE QuietRunL(_)
QuietRunL(i) == IF i = 0 \/ LoudL(i) THEN 0 ELSE 1 + QuietRunL(i - 1)

\* is_speaking before frame i of the current session, in a fresh session.
BeforeE(i) == IF i = 1 THEN FALSE ELSE events[i - 1][1]

\* The current session is the first to process frames on this detector.
FreshSession == sessions >= 1 /\ Len(events) = Len(log)

\* C1: in a fresh session with M = min_speech_frames >= 1, is_speaking turns
\* true exactly on the M-th frame of a run of loud frames, never earlier; M-1
\* loud frames followed by a quiet one leave every event false.
C1_SpeechStartsOnMthLoudFrame ==
  (FreshSession /\ min_speech_frames >= 1) =>
    /\ \A i \in 1..Len(events) :
         /\ (~BeforeE(i) /\ events[i][1]) => LoudRunE(i) = min_speech_frames
         /\ (~BeforeE(i) /\ LoudRunE(i) >= min_speech_frames) => events[i][1]
    /\ ( /\ Len(events) >= min_speech_frames
         /\ \A j \in 1..(min_speech_frames - 1) : LoudE(j)
         /\ ~LoudE(min_speech_frames) )
       => \A j \in 1..min_speech_frames : ~events[j][1]

\* C1 witness: M >= 2, a run of M-1 loud frames was cut by a quiet frame with
\* nothing but false events, and a later run reached M and started speech.
C1_Witness ==
  /\ FreshSession
  /\ min_speech_frames >= 2
  /\ Len(events) >= 2 * min_speech_frames
  /\ \A j \in 1..(min_speech_frames - 1) : LoudE(j)
  /\ ~LoudE(min_speech_frames)
  /\ \A j \in 1..min_speech_frames : ~events[j][1]
  /\ \E i \in 2..Len(events) :
       ~events[i - 1][1] /\ events[i][1] /\ LoudRunE(i) = min_speech_frames

\* C2: with S = silence_threshold >= 1, while is_speaking is true it turns
\* false on a frame exactly when that frame is the S-th consecutive quiet
\* frame; after fewer quiet frames, or on a loud frame, it is still true.
C2_SpeechEndsOnSthQuietFrame ==
  silence_threshold >= 1 =>
    \A i \in 2..Len(log) :
      log[i - 1][1] => (~log[i][1] <=> QuietRunL(i) = silence_threshold)

\* C2 witness: S >= 2, a quiet run of S-1 frames was interrupted by a loud
\* frame with is_speaking still true, and a later run of S ended speech.
C2_Witness ==
  /\ silence_threshold >= 2
  /\ \E i \in 2..Len(log) :
       /\ log[i - 1][1] /\ ~log[i][1] /\ QuietRunL(i) = silence_threshold
       /\ \E j \in 2..(i - 1) :
            /\ QuietRunL(j - 1) = silence_threshold - 1
            /\ LoudL(j)
            /\ log[j - 1][1] /\ log[j][1]

\* C3: a session whose frames are all at or below the threshold has
\* is_speaking false in every event it emits.
C3_QuietSessionNeverSpeaks ==
  (\A i \in 1..Len(events) : ~LoudE(i)) =>
    (\A i \in 1..Len(events) : ~events[i][1])

\* round(), Python 3: to the nearest integer, halves to the even one.
RoundNearest(n, d) ==
  LET q == n \div d
      r == n % d
  IN IF 2 * r > d \/ (2 * r = d /\ q % 2 = 1) THEN q + 1 ELSE q

\* C4: both frame counts are duration * sample_rate / chunk_size rounded to
\* the nearest integer; 16 and 5 for the default configuration.
C4_FrameCountsAreRounded ==
  /\ silence_threshold =
       RoundNearest(config.silence_duration * config.sample_rate,
                    10 * config.chunk_size)
  /\ min_speech_frames =
       RoundNearest(config.min_speech_duration * config.sample_rate,
                    10 * config.chunk_size)
  /\ config = DefaultConfig => silence_threshold = 16 /\ min_speech_frames = 5

\* C5: default configuration, fresh session, 5 loud frames then 16 quiet
\* ones: is_speaking is true from the 5th frame to the 20th and false on
\* frames 1 to 4 and on frame 21.
C5_DefaultFiveLoudSixteenQuiet ==
  (config = DefaultConfig /\ FreshSession) =>
    \A i \in 1..Len(events) :
      ( /\ i <= 21
        /\ \A j \in 1..i : LoudE(j) <=> j <= 5 )
      => (events[i][1] <=> (5 <= i /\ i <= 20))

\* C6: default configuration, fresh session, 4 loud frames, 1 quiet, 4 loud:
\* all 9 events carry is_speaking = false.
C6_DefaultFourQuietFourStaysSilent ==
  (config = DefaultConfig /\ FreshSession) =>
    \A i \in 1..Len(events) :
      ( /\ i <= 9
        /\ \A j \in 1..i : LoudE(j) <=> j # 5 )
      => ~events[i][1]

\* C7: a session that starts on a detector sees silence_frames = 0,
\* speech_frames = 0 and is_speaking = false at its first frame.
C7_RestartResetsState ==
  gen = "opened" =>
    (silence_frames = 0 /\ speech_frames = 0 /\ is_speaking = FALSE)

\* C8: every frame read yields exactly one event, carrying that frame and
\* is_speaking as it is after the frame; nothing else yields an event.
C8_OneEventPerFrame ==
  [][ /\ log' # log =>
         /\ Len(log') = Len(log) + 1
         /\ events' = Append(events, <<is_speaking', log'[Len(log')][2]>>)
      /\ (events' # events /\ sessions' = sessions) => log' # log ]_vars

\* C8 witness: two consecutive events with the same is_speaking (no
\* transition) and different frames, and an event with is_speaking true.
C8_Witness ==
  /\ \E i \in 1..(Len(events) - 1) :
       events[i][1] = events[i + 1][1] /\ events[i][2] # events[i + 1][2]
  /\ \E i \in 1..Len(events) : events[i][1]

\* Level of a frame against the threshold, SumAbs/Len/32768 vs num/den:
\* 1 above, 0 equal, -1 below.
LevelCmp(data, thr) ==
  LET l == SumAbs(data) * thr[2]
      r == thr[1] * FullScale * Len(data)
  IN IF l > r THEN 1 ELSE IF l = r THEN 0 ELSE -1

\* C9: a frame strictly above the threshold zeroes silence_frames and adds
\* one to speech_frames; any other frame, one exactly at the threshold
\* included, zeroes speech_frames and adds one to silence_frames.
C9_CounterUpdate ==
  [][ log' # log =>
        IF LevelCmp(log'[Len(log')][2], config.threshold) = 1
        THEN silence_frames' = 0 /\ speech_frames' = speech_frames + 1
        ELSE speech_frames' = 0 /\ silence_frames' = silence_frames + 1 ]_vars

\* C9 witness: after a loud frame, a frame exactly at the threshold was
\* counted as silence.
C9_Witness ==
  /\ Len(log) >= 2
  /\ LevelCmp(log[Len(log) - 1][2], config.threshold) = 1
  /\ LevelCmp(log[Len(log)][2], config.threshold) = 0
  /\ speech_frames = 0
  /\ silence_frames = 1

\* C10: both derived frame counts are at least 1 for every configuration.
C10_FrameCountsAtLeastOne ==
  silence_threshold >= 1 /\ min_speech_frames >= 1

\* ----------------------------------------------- streams and their release
\* h is among the streams on which close() returned.
Closed(h) == \E i \in 1..Len(released) : released[i] = h

\* No stream occurs twice in the sequence.
NoRepeat(seq) == \A i, j \in 1..Len(seq) : seq[i] = seq[j] => i = j

\* C11: whenever no session is running (every generator that was started has
\* ended, normally, by abandonment or with an error), every stream that was
\* opened has been closed and the detector holds no stream handle.  Both
\* detectors.
C11_EveryExitReleasesStream ==
  gen = "none" => (stream = 0 /\ \A h \in 1..opened : Closed(h))

\* C12: when reading a frame fails during a session that holds a stream, the
\* caller gets the read error, no event is emitted for that frame, the session
\* ends, and the stream is closed and its handle cleared.
C12_ReadFailureRaisesAndReleases ==
  [][ ((ReadFails \/ ReadFailsReleaseFails) /\ stream # 0)
        => /\ raised' = "read"
           /\ events' = events
           /\ log' = log
           /\ gen' = "none"
           /\ stream' = 0
           /\ released' = Append(released, stream) ]_vars

\* C13: an open call that opens no stream is a failed open.  The session then
\* raises the open error after that single attempt, reads no frame, emits no
\* event, and leaves the detection state and the stream handle as they were.
C13_OpenFailureLeavesStateUnchanged ==
  [][ (kind = "vad" /\ open_calls' # open_calls /\ opened' = opened)
        => /\ open_calls' = open_calls + 1
           /\ raised' = "open"
           /\ log' = log
           /\ events' = <<>>
           /\ gen' = "none"
           /\ stream' = stream
           /\ stream' = 0
           /\ UNCHANGED vadState ]_vars

\* C13 witness: the second session failed to open after the first one had
\* left speech counted and the detector speaking.
C13_Witness ==
  /\ kind = "vad"
  /\ raised = "open"
  /\ sessions = 2
  /\ open_calls = 2
  /\ opened = 1
  /\ gen = "none"
  /\ is_speaking
  /\ speech_frames >= 1

\* C14: a stop_detecting() call from outside leaves no stream handle, changes
\* nothing when there is no stream, and no stream is ever stopped or closed
\* more than once.
C14_StopIsIdempotent ==
  [][ (StopDetecting \/ StopDetectingFails)
        => /\ stream' = 0
           /\ stream = 0 => UNCHANGED << stopped, released, vadState, audio >>
           /\ NoRepeat(stopped')
           /\ NoRepeat(released') ]_vars

\* --------------------------------------------------- wake-word detection
\* w occurs in t as a contiguous run of characters, at some offset k.
OccursIn(w, t) ==
  \E k \in 0..Len(t) :
    \A j \in 1..Len(w) : k + j <= Len(t) /\ t[k + j] = w[j]

\* "Hey, Jarvis, what's up"
CommaTranscript == FragHeyComma \o FragJarvisRest

\* C15: in a session the detector has emitted exactly one boolean for every
\* utterance the recognizer finalized, and none for any other frame.
C15_OneBooleanPerFinalizedUtterance ==
  kind = "wake" => Len(emitted) = Len(finals)

\* C16: the i-th boolean emitted is true exactly when the lowercased wake
\* word occurs as a contiguous substring of the lowercased i-th final
\* transcript; "Hey, Jarvis, what's up" with wake word "hey jarvis" gives
\* false, and so does a transcript with no text.
C16_EmittedIffSubstring ==
  kind = "wake" =>
    \A i \in 1..Len(emitted) :
      /\ emitted[i] = OccursIn(LowerStr(wake_arg), LowerStr(finals[i]))
      /\ (finals[i] = CommaTranscript /\ LowerStr(wake_arg) = DefaultWakeWord)
           => ~emitted[i]
      /\ (finals[i] = << >> /\ wake_arg # << >>) => ~emitted[i]

\* C16 witness: constructed with "Hey Jarvis", one session emitted true for
\* the transcript "Hey Jarvis" and false for "Hey, Jarvis, what's up".
C16_Witness ==
  /\ kind = "wake"
  /\ wake_arg = FragHeyJarvis
  /\ finals = << FragHeyJarvis, CommaTranscript >>
  /\ emitted = << TRUE, FALSE >>

\* C17: a failure inside one recognition cycle does not end the session: the
\* cycle emits false, the stream stays open and the generator goes on.
C17_RecognitionFailureContinues ==
  [][ WakeResultFails
        => /\ emitted' = Append(emitted, FALSE)
           /\ stream' = stream
           /\ stream' # 0
           /\ gen' # "none" ]_vars

\* C18: construction with a missing model (directory absent or empty)
\* attempts provisioning before anything else; when provisioning fails,
\* construction fails with the model error, no recognizer is held, and no
\* audio stream has been opened or read.
C18_ProvisioningBeforeLoad ==
  [][ /\ (kind = "wake" /\ ctor = "check" /\ ctor' # "check"
            /\ model_dir \in {"absent", "empty"})
        => ctor_log' = << "download" >>
      /\ (kind = "wake" /\ ctor = "check" /\ ctor' = "failed")
        => /\ raised' = "model"
           /\ recognizer' = "none"
           /\ open_calls' = 0
           /\ stream' = 0
           /\ reads' = 0
           /\ gen' = "none" ]_vars

\* C18 witness: the directory existed but was empty, provisioning was
\* attempted and failed, and construction ended there.
C18_Witness ==
  /\ kind = "wake"
  /\ ctor = "failed"
  /\ ctor_log = << "download" >>
  /\ model_dir = "empty"
  /\ raised = "model"

\* C19: after stop_detecting() or close() the wake-word detector holds
\* neither the audio stream nor the recognizer, and a call that finds nothing
\* held releases nothing.
C19_StopReleasesSourceAndRecognizer ==
  [][ (WakeStopDetecting \/ WakeClose)
        => /\ stream' = 0
           /\ recognizer' = "none"
           /\ stream = 0 => UNCHANGED << stopped, released >> ]_vars

\* C20: while a session runs, the recognizer holds audio of that session
\* only: nothing fed in an earlier session is left to join a transcript.
C20_NoAudioAcrossSessions ==
  (kind = "wake" /\ gen # "none") =>
    \A i \in 1..Len(rec_buffer) : rec_buffer[i][1] = sessions

\* ------------------------------------------- construction, frames, recording
\* C21: when construction of the wake-word detector has failed (provisioning
\* or model load raised), the audio backend it created has been terminated.
C21_FailedConstructionReleasesAudio ==
  (kind = "wake" /\ ctor = "failed") => audio = "terminated"

\* C23: a frame is read only in a step that hands exactly one event back to
\* the consumer and leaves the generator waiting at its yield; the events of
\* the session are the last frames read, in the order they were read; and
\* while the generator waits nothing is read or delivered.
C23_PullBasedLockStep ==
  [][ /\ log' # log =>
         /\ gen \in {"opened", "suspended"}
         /\ gen' = "suspended"
         /\ Len(log') = Len(log) + 1
         /\ Len(events') = Len(events) + 1
         /\ \A i \in 1..Len(events') :
              events'[i] = log'[Len(log') - Len(events') + i]
      /\ (log' = log /\ gen = "suspended" /\ gen' = "suspended")
           => events' = events ]_vars

\* C23 witness: a second session has delivered three events for three
\* different frames and waits for the next request.
C23_Witness ==
  /\ kind = "vad"
  /\ sessions = 2
  /\ gen = "suspended"
  /\ Len(events) = 3
  /\ Len(log) > 3
  /\ events[1][2] # events[2][2]
  /\ events[2][2] # events[3][2]
  /\ events[1][2] # events[3][2]

\* is_speaking before frame i of the detector's life.
BeforeL(i) == IF i = 1 THEN FALSE ELSE log[i - 1][1]

\* C24: with both frame counts >= 1, when is_speaking turns true on a frame
\* it is true on every frame before the silence_threshold-th frame after
\* it, and when it turns false it is false on every frame before the
\* min_speech_frames-th frame after it.
C24_NoFlapping ==
  (silence_threshold >= 1 /\ min_speech_frames >= 1) =>
    \A i \in 1..Len(log) :
      log[i][1] # BeforeL(i) =>
        \A j \in (i + 1)..Len(log) :
          j < i + (IF log[i][1] THEN silence_threshold ELSE min_speech_frames)
            => log[j][1] = log[i][1]

\* C24 witness: with silence_threshold = 3, is_speaking turned true, stayed
\* true over two quiet frames, turned false on the third and true again.
C24_Witness ==
  /\ kind = "vad"
  /\ silence_threshold = 3
  /\ min_speech_frames = 1
  /\ Len(log) = 5
  /\ log[1][1] /\ log[2][1] /\ log[3][1] /\ ~log[4][1] /\ log[5][1]
  /\ ~LoudL(2) /\ ~LoudL(3) /\ ~LoudL(4)

\* Length of the run of loud frames ending at frame i of the detector's life.
RECURSIVE LoudRunL(_)
LoudRunL(i) == IF i = 0 \/ ~LoudL(i) THEN 0 ELSE 1 + LoudRunL(i - 1)

\* C25: after a loud frame silence_frames is 0 and speech_frames is the
\* length of the run of loud frames ending there; after a quiet frame
\* speech_frames is 0 and silence_frames is the length of the run of quiet
\* frames; both are 0 only before the first frame of the detector.
C25_OneCounterIsTheRunLength ==
  kind = "vad" =>
    /\ Len(log) >= 1 =>
         IF LoudL(Len(log))
         THEN /\ silence_frames = 0
              /\ speech_frames >= 1
              /\ speech_frames = LoudRunL(Len(log))
         ELSE /\ speech_frames = 0
              /\ silence_frames >= 1
              /\ silence_frames = QuietRunL(Len(log))
    /\ (silence_frames = 0 /\ speech_frames = 0) => Len(log) = 0

\* C25 witness: a run of two loud frames after quiet frames, and earlier a
\* run of two quiet frames after a loud one.
C25_Witness ==
  /\ kind = "vad"
  /\ Len(log) = 5
  /\ LoudL(1) /\ ~LoudL(2) /\ ~LoudL(3) /\ LoudL(4) /\ LoudL(5)
  /\ speech_frames = 2
  /\ silence_frames = 0

\* C26: is_speaking changes only in a step that processes a frame, to true
\* only on a loud frame and to false only on a quiet one.
C26_SpeakingChangesWithFrameOnly ==
  [][ is_speaking' # is_speaking =>
        /\ Len(log') = Len(log) + 1
        /\ is_speaking' = (LevelCmp(log'[Len(log')][2], config.threshold) = 1)
    ]_vars

\* C26 witness: is_speaking went true, false and true again on frames, and
\* is still true after the session was stopped and the detector closed.
C26_Witness ==
  /\ kind = "vad"
  /\ audio = "terminated"
  /\ stream = 0
  /\ is_speaking
  /\ \E i, j \in 1..Len(log) : i < j /\ log[i][1] /\ ~log[j][1]

\* is_speaking before the run of loud frames that ends at frame i of the
\* current session; a session is taken to begin not speaking.
SpeakingBeforeRunE(i) ==
  IF i - LoudRunE(i) = 0 THEN FALSE ELSE events[i - LoudRunE(i)][1]

\* The frames record_with_activity_detection yields for the current session
\* are those of the events with is_speaking = true.
RecordingIsSpeechOnly ==
  /\ Len(RecordWithActivityDetection(events))
       = Cardinality({ i \in 1..Len(events) : events[i][1] })
  /\ \A k \in 1..Len(RecordWithActivityDetection(events)) :
       \E i \in 1..Len(events) :
         events[i][1] /\ events[i][2] = RecordWithActivityDetection(events)[k]

\* C28: the recording of a session holds exactly the frames whose event has
\* is_speaking = true, and none of the first min_speech_frames - 1 loud
\* frames of a speech onset (a run of loud frames that begins while not
\* speaking) is among them.
C28_RecordingDropsOnsetFrames ==
  kind = "vad" =>
    /\ RecordingIsSpeechOnly
    /\ \A i \in 1..Len(events) :
         (LoudE(i) /\ LoudRunE(i) < min_speech_frames /\ ~SpeakingBeforeRunE(i))
           => ~events[i][1]

\* --------------------------------------------------- overlapping sessions
\* The detection state after the first n frames of evs alone, from the state
\* __init__ leaves.
RECURSIVE OwnState(_, _)
OwnState(evs, n) ==
  IF n = 0
  THEN [is_speaking |-> FALSE, silence_frames |-> 0, speech_frames |-> 0]
  ELSE LET p == OwnState(evs, n - 1)
       IN StepVAD(p.is_speaking, p.silence_frames, p.speech_frames,
                  AboveThreshold(evs[n][2], config.threshold),
                  silence_threshold, min_speech_frames)

\* C22: when a second session has been started on the detector while its
\* first session was running, every event of the first session still reports
\* the is_speaking that the first session's own frames produce: the frames
\* of the second session have not advanced or reset its counters.
C22_FramesUpdateOwnSessionOnly ==
  (kind = "vad" /\ sessions = 2 /\ gen2 # "none") =>
    \A i \in 1..Len(events) : events[i][1] = OwnState(events, i).is_speaking

\* C27: when neither of the two sessions on a detector is running any more,
\* every stream that was opened has been closed.
C27_OverlappingSessionsCloseStreams ==
  (kind = "vad" /\ gen = "none" /\ gen2 # "suspended") =>
    \A h \in 1..opened : Closed(h)

\* ------------------------------------------------------------- shutdown
\* C29: when shutdown() has raised because closing the wake-word detector
\* raised, the activity detector the manager holds has been closed all the
\* same: its stream is released and its audio backend terminated.
C29_ShutdownClosesEveryDetector ==
  (mgr.shutdown = "wake close raised" /\ mgr.activity_detector = "built")
    => (stream = 0 /\ audio = "terminated")

\* ------------------------------------------------------ failed release
\* C30: a step in which stop_stream() or close() raises inside
\* stop_detecting() hands the stop error to the caller and leaves the stream
\* handle as it was, closed by nobody; and a stop_detecting() call that
\* finds the handle still set after such a failure calls stop_stream() on it
\* again.  Both detectors.
C30_FailedReleaseKeepsHandle ==
  [][ /\ faults' = faults + 1 =>
         /\ raised' = "stop"
         /\ stream # 0
         /\ stream' = stream
         /\ released' = released
      /\ ((StopDetecting \/ StopDetectingFails \/ WakeStopDetecting
             \/ WakeStopDetectingFails) /\ stream # 0 /\ faults > 0)
           => (Len(stopped') = Len(stopped) + 1 \/ faults' = faults + 1)
    ]_vars

\* C30 witness: the release of the only stream failed once, the caller saw
\* the stop error, and a later stop_detecting() closed that stream.
C30_Witness ==
  /\ faults = 1
  /\ raised = "stop"
  /\ opened = 1
  /\ stream = 0
  /\ released = << 1 >>
====
